---- MODULE Spec2Model ----
(***************************************************************************)
(* Model of robusta-codegen/src/transformation/mod.rs: the module folder   *)
(* (ModTransformer), the impl classifier (ImplExportVisitor), the impl     *)
(* cleaner (ImplCleaner), and the JNI signature pipeline                   *)
(* (FreestandingTransformer, JNISignatureTransformer, JNISignature).       *)
(*                                                                         *)
(* Syntax trees are records; token streams, Vec and Punctuated are         *)
(* sequences; Option<T> is a record [some, val].                           *)
(***************************************************************************)
EXTENDS Integers, Sequences, FiniteSets, TLC

VARIABLES
    module_decl,          \* ModTransformer.module.module_decl (the input ItemMod)
    package_map,          \* ModTransformer.module.package_map
    pc,                   \* position of fold_item_mod: "start" | "items" | "done"
    pos,                  \* number of items of module_decl.content already folded
    out_attrs,            \* attrs of the ItemMod being built
    out_items,            \* items of the ItemMod being built
    impl_export_visitor,  \* .items of the visitor of the latest transform_item_impl
    diags,                \* diagnostics emitted so far (emit_error! / emit_warning!)
    method,               \* method machine: the input impl item
    mpc,                  \* method machine: "visit" | "clean" | "revisit" | "done"
    original_tag,         \* method machine: visitor entry for the input item
    cleaned,              \* method machine: ImplCleaner output for the input item
    cleaned_tag,          \* method machine: visitor entry for the cleaned item
    sig_in,               \* signature machine: arguments of JNISignature::new
    spc,                  \* signature machine: "new" | "built" | "called" | "panicked"
    jni_signature,        \* signature machine: the JNISignature value
    call_expr,            \* signature machine: result of signature_call
    sig_diags             \* signature machine: diagnostics emitted by JNISignature::new

mod_vars == <<module_decl, package_map, pc, pos, out_attrs, out_items,
              impl_export_visitor, diags>>
method_vars == <<method, mpc, original_tag, cleaned, cleaned_tag>>
sig_vars == <<sig_in, spc, jni_signature, call_expr, sig_diags>>
vars == <<mod_vars, method_vars, sig_vars>>

(***************************************************************************)
(* Bounds of the model.                                                    *)
(***************************************************************************)
MaxItems == 2        \* items of a module
MaxImplItems == 3    \* items of an impl block
MaxAttrs == 2        \* attributes of a method (method machine)
MaxGenerics == 2     \* generic parameters of a method
MaxArgs == 2         \* parameters of a method after the receiver

(***************************************************************************)
(* Generic helpers.                                                        *)
(***************************************************************************)
None == [some |-> FALSE, val |-> ""]
Some(v) == [some |-> TRUE, val |-> v]

\* Option<Abi>: an `extern` marker, whose name is itself optional
NoAbi == [some |-> FALSE, name |-> None]
Abi(name) == [some |-> TRUE, name |-> name]

SeqsUpTo(S, n) == UNION {[1..k -> S] : k \in 0..n}

IdentNames == <<"m1", "m2", "m3", "m4", "m5", "m6">>

(***************************************************************************)
(* Attributes.  An attribute is its path, a sequence of segments.          *)
(***************************************************************************)
get_ident(path) == IF Len(path) = 1 THEN Some(path[1]) ELSE None

path_to_string(path) == IF Len(path) = 1 THEN path[1] ELSE "<multi-segment>"

CallTypeAttr == [path |-> <<"call_type">>]
InlineAttr == [path |-> <<"inline">>]
RustfmtSkipAttr == [path |-> <<"rustfmt", "skip">>]
PackageAttr == [path |-> <<"package">>]
DeriveAttr == [path |-> <<"derive">>]

(***************************************************************************)
(* Classifier: ImplExportVisitor.                                          *)
(***************************************************************************)
\* utils::get_abi, as the cleaner computes it inline (lines 313-317):
\* the name of the signature's `extern` marker, when it has one.
get_abi(sig) == IF sig.abi.some THEN sig.abi.name ELSE None

\* the two markers swapped
ImplItemType_swapped(node) ==
    IF node.kind = "Method"
    THEN LET abi == get_abi(node.sig)
         IN  IF abi = Some("java") THEN "Exported"
             ELSE IF abi = Some("jni") THEN "Imported"
             ELSE "Unexported"
    ELSE "Unexported"

ImplItemType(node) ==
    IF node.kind = "Method"
    THEN LET abi == get_abi(node.sig)
         IN  IF abi = Some("jni") THEN "Exported"
             ELSE IF abi = Some("java") THEN "Imported"
             ELSE "Unexported"
    ELSE "Unexported"

\* one call of visit_impl_item: pushes one pair
visit_impl_item(items, node) == Append(items, <<node, ImplItemType(node)>>)

\* visit_item_impl: the default traversal calls visit_impl_item on each item in order
RECURSIVE visit_items(_, _)
visit_items(items, nodes) ==
    IF nodes = <<>> THEN items
    ELSE visit_items(visit_impl_item(items, Head(nodes)), Tail(nodes))

visit_item_impl(node) == visit_items(<<>>, node.items)

(***************************************************************************)
(* Cleaner: ImplCleaner.                                                   *)
(***************************************************************************)
keeps_attribute(a) ==
    LET i == get_ident(a.path) IN IF i.some THEN i.val # "call_type" ELSE FALSE

\* the marker is left on the method
fold_impl_item_method_keeps_abi(node) ==
    LET abi == IF node.sig.abi.some THEN node.sig.abi.name ELSE None
    IN  IF node.vis = "pub" /\ abi = Some("jni")
        THEN [node EXCEPT !.attrs = SelectSeq(node.attrs, keeps_attribute)]
        ELSE node

fold_impl_item_method(node) ==
    LET abi == IF node.sig.abi.some THEN node.sig.abi.name ELSE None
    IN  IF node.vis = "pub" /\ abi = Some("jni")
        THEN [node EXCEPT !.sig.abi = NoAbi,
                          !.attrs = SelectSeq(node.attrs, keeps_attribute)]
        ELSE node

\* Fold::fold_impl_item of ImplCleaner: methods go to fold_impl_item_method,
\* the default fold leaves every other item as it is
ImplCleaner_fold_impl_item(item) ==
    IF item.kind = "Method" THEN fold_impl_item_method(item) ELSE item

(***************************************************************************)
(* Module folder: ModTransformer.                                          *)
(***************************************************************************)
Error(at, msg) == [level |-> "error", at |-> at, msg |-> msg]
Warning(at, msg) == [level |-> "warning", at |-> at, msg |-> msg]

\* utils::canonicalize_path: the path without its generic arguments
canonicalize_path(path) == [path EXCEPT !.args = <<>>]

\* lines 56-60: the canonical path printed without spaces
struct_name_of(path) == canonicalize_path(path).name

\* without the flatten: a None entry counts as found
lookup_package_unflattened(pm, struct_name) ==
    IF struct_name \in DOMAIN pm
    THEN (IF pm[struct_name].some THEN pm[struct_name] ELSE Some(""))
    ELSE None

\* package_map.get(&struct_name).cloned().flatten()
lookup_package(pm, struct_name) ==
    IF struct_name \in DOMAIN pm THEN pm[struct_name] ELSE None

\* lines 68-79: the lifetime arguments of the impl target path
path_lifetimes(path) ==
    {path.args[i].ident : i \in {j \in DOMAIN path.args : path.args[j].kind = "Lifetime"}}

\* lines 81-89: the impl's lifetime parameters that the target path names
is_path_lifetime_param(p, path) ==
    p.kind = "Lifetime" /\ p.ident \in path_lifetimes(path)

struct_lifetimes_of(node) ==
    LET keep(p) == is_path_lifetime_param(p, node.self_ty.path)
    IN  SelectSeq(node.generics, keep)

\* imported::ImportedMethodTransformer::fold_impl_item: the method keeps its
\* place and gets a body that calls into Java
ImportedMethodTransformer_fold_impl_item(t, item) ==
    IF item.kind = "Method" THEN [item EXCEPT !.body = "java_call"] ELSE item

\* exported::ExportedMethodTransformer::fold_impl_item: one freestanding shim
\* for the method
ExportedMethodTransformer_fold_impl_item(t, item) ==
    [kind |-> "Shim", struct_name |-> t.struct_name,
     struct_lifetimes |-> t.struct_lifetimes, package |-> t.package,
     fn_name |-> item.ident]

\* lines 104-116
preserved_item(pair, imported_fns_transformer) ==
    LET item == pair[1]
        t == pair[2]
    IN  CASE t = "Exported" -> ImplCleaner_fold_impl_item(item)
          [] t = "Imported" -> ImportedMethodTransformer_fold_impl_item(
                                   imported_fns_transformer,
                                   ImplCleaner_fold_impl_item(item))
          [] OTHER -> item

RECURSIVE preserved_items_of(_, _)
preserved_items_of(pairs, imported_fns_transformer) ==
    IF pairs = <<>> THEN <<>>
    ELSE <<preserved_item(Head(pairs), imported_fns_transformer)>>
         \o preserved_items_of(Tail(pairs), imported_fns_transformer)

\* lines 118-127
RECURSIVE transformed_items_of(_, _)
transformed_items_of(pairs, exported_fns_transformer) ==
    IF pairs = <<>> THEN <<>>
    ELSE (IF Head(pairs)[2] = "Exported"
          THEN <<ExportedMethodTransformer_fold_impl_item(
                     exported_fns_transformer, Head(pairs)[1])>>
          ELSE <<>>)
         \o transformed_items_of(Tail(pairs), exported_fns_transformer)

\* one step of the closure of lines 151-154: `item` is the accumulator,
\* `stream` the next element; the accumulator is appended to the element
fold_step(item, stream) == stream \o item

\* Iterator::fold over the token streams of the transformed items
RECURSIVE fold_streams(_, _)
fold_streams(acc, streams) ==
    IF streams = <<>> THEN acc
    ELSE fold_streams(fold_step(acc, Head(streams)), Tail(streams))

\* transform_item_impl: the tokens that replace the impl block, the visitor's
\* items and the diagnostics emitted
transform_item_impl(node, pm) ==
    LET visited == visit_item_impl(node)
        p == node.self_ty
        struct_name == struct_name_of(p.path)
        struct_package == lookup_package(pm, struct_name)
        exported_fns_transformer ==
            [struct_type |-> p.path, struct_name |-> struct_name,
             struct_lifetimes |-> struct_lifetimes_of(node),
             package |-> struct_package]
        imported_fns_transformer ==
            [struct_name |-> struct_name, package |-> struct_package]
        preserved_items ==
            IF p.kind = "Path"
            THEN preserved_items_of(visited, imported_fns_transformer)
            ELSE node.items
        transformed_items ==
            IF p.kind = "Path"
            THEN transformed_items_of(visited, exported_fns_transformer)
            ELSE <<>>
        preserved_impl == [node EXCEPT !.items = preserved_items]
        streams == [i \in DOMAIN transformed_items |-> <<transformed_items[i]>>]
    IN  IF p.kind = "Path" /\ ~struct_package.some
        THEN [tokens |-> <<node>>, visited |-> visited,
              diags |-> <<Error(struct_name, "can't find package for struct")>>]
        ELSE [tokens |-> fold_streams(<<preserved_impl>>, streams),
              visited |-> visited, diags |-> <<>>]

\* fold_item_struct: drops the `package` attribute
is_not_package_attribute(a) == path_to_string(a.path) # "package"

fold_item_struct(node) ==
    [node EXCEPT !.attrs = SelectSeq(node.attrs, is_not_package_attribute)]

AllowNonSnakeCase == [path |-> <<"allow">>, arg |-> "non_snake_case"]
AllowUnused == [path |-> <<"allow">>, arg |-> "unused"]

\* fold_item and, for a nested module, fold_item_mod: the folded item, the
\* visitor's items of the last impl block folded and the diagnostics emitted
RECURSIVE fold_item(_, _), fold_items(_, _)
fold_item(node, pm) ==
    CASE node.kind = "Impl" ->
            LET r == transform_item_impl(node, pm)
            IN  [item |-> [kind |-> "Verbatim", tokens |-> r.tokens],
                 visited |-> Some(r.visited), diags |-> r.diags]
      [] node.kind = "Struct" ->
            [item |-> fold_item_struct(node), visited |-> None, diags |-> <<>>]
      [] node.kind = "Mod" ->
            LET r == IF node.content.some THEN fold_items(node.content.val, pm)
                     ELSE [items |-> <<>>, visited |-> None, diags |-> <<>>]
            IN  [item |-> [node EXCEPT
                               !.attrs = node.attrs \o <<AllowNonSnakeCase, AllowUnused>>,
                               !.content = IF node.content.some
                                           THEN Some(r.items) ELSE node.content],
                 visited |-> r.visited, diags |-> r.diags]
      [] OTHER -> [item |-> node, visited |-> None, diags |-> <<>>]

fold_items(nodes, pm) ==
    IF nodes = <<>> THEN [items |-> <<>>, visited |-> None, diags |-> <<>>]
    ELSE LET h == fold_item(Head(nodes), pm)
             t == fold_items(Tail(nodes), pm)
         IN  [items |-> <<h.item>> \o t.items,
              visited |-> IF t.visited.some THEN t.visited ELSE h.visited,
              diags |-> h.diags \o t.diags]

(***************************************************************************)
(* Inputs of the module folder.                                            *)
(***************************************************************************)
NoContent == [some |-> FALSE, val |-> <<>>]

Method(vis, abi, attrs) ==
    [kind |-> "Method", ident |-> "", vis |-> vis, attrs |-> attrs,
     sig |-> [abi |-> abi], body |-> "block"]

ConstItem ==
    [kind |-> "Const", ident |-> "", vis |-> "inherited", attrs |-> <<>>,
     sig |-> [abi |-> NoAbi], body |-> "expr"]

LifetimeParam(ident, bounds) == [kind |-> "Lifetime", ident |-> ident, bounds |-> bounds]
TypeParam(ident) == [kind |-> "Type", ident |-> ident, bounds |-> <<>>]

\* a one-segment path with its angle-bracketed generic arguments
Path(name, args) == [name |-> name, args |-> args]
LifetimeArg(ident) == [kind |-> "Lifetime", ident |-> ident]
TypeArg(ident) == [kind |-> "Type", ident |-> ident]

PathType(name, args) == [kind |-> "Path", path |-> Path(name, args)]
ReferenceType(lifetime, mutability, elem) ==
    [kind |-> "Reference", lifetime |-> lifetime, mutability |-> mutability,
     elem |-> elem]

\* impl Foo, impl<'env> Foo<'env>, impl<'a, 'env, T> Bar<'a, T>, impl &Foo
ImplHeaders ==
    { [generics |-> <<>>, self_ty |-> PathType("Foo", <<>>)],
      [generics |-> <<LifetimeParam("env", <<>>)>>,
       self_ty |-> PathType("Foo", <<LifetimeArg("env")>>)],
      [generics |-> <<LifetimeParam("a", <<>>), LifetimeParam("env", <<>>),
                      TypeParam("T")>>,
       self_ty |-> PathType("Bar", <<LifetimeArg("a"), TypeArg("T")>>)],
      [generics |-> <<>>,
       self_ty |-> ReferenceType(None, FALSE, PathType("Foo", <<>>))] }

ItemImpl(header, items) ==
    [kind |-> "Impl", attrs |-> <<>>, generics |-> header.generics,
     self_ty |-> header.self_ty,
     items |-> [i \in DOMAIN items |-> [items[i] EXCEPT !.ident = IdentNames[i]]]]

ImplItemKinds ==
    {Method(v, a, <<>>) : v \in {"pub", "inherited"},
                          a \in {NoAbi, Abi(Some("jni")), Abi(Some("java")), Abi(Some("C"))}}
    \cup {Method("pub", Abi(Some("jni")), <<CallTypeAttr, InlineAttr>>),
          Method("inherited", Abi(Some("jni")), <<CallTypeAttr>>),
          ConstItem}

SmallItemLists ==
    { <<>>,
      <<Method("pub", Abi(Some("jni")), <<CallTypeAttr>>)>>,
      <<Method("pub", Abi(Some("jni")), <<CallTypeAttr>>), ConstItem>>,
      <<Method("pub", Abi(Some("java")), <<>>)>> }

ItemStruct(attrs) == [kind |-> "Struct", ident |-> "Foo", attrs |-> attrs]
ItemFn == [kind |-> "Fn", ident |-> "helper"]
ItemMod(attrs, content) == [kind |-> "Mod", attrs |-> attrs, content |-> content]

SmallItems ==
    {ItemImpl(h, l) : h \in ImplHeaders, l \in SmallItemLists}
    \cup {ItemStruct(<<PackageAttr, DeriveAttr>>), ItemStruct(<<DeriveAttr>>), ItemFn,
          ItemMod(<<>>, Some(<<ItemStruct(<<PackageAttr>>),
                               ItemImpl([generics |-> <<>>,
                                         self_ty |-> PathType("Baz", <<>>)], <<>>)>>))}

\* Foo and Bar resolve; only Foo resolves; Foo has a None entry; nothing resolves
PackageMaps ==
    { [n \in {"Foo", "Bar"} |-> Some("com.example")],
      [n \in {"Foo"} |-> Some("com.example")],
      [n \in {"Foo", "Bar"} |-> IF n = "Foo" THEN None ELSE Some("com.example")],
      [n \in {"Baz"} |-> None] }

\* the modules folded: one impl block of up to MaxImplItems items of any kind,
\* up to MaxItems small items, or a module without content
IsModuleDecl(m) ==
    \/ \E h \in ImplHeaders : \E k \in 0..MaxImplItems : \E l \in [1..k -> ImplItemKinds] :
          m = ItemMod(<<>>, Some(<<ItemImpl(h, l)>>))
    \/ \E k \in 0..MaxItems : \E c \in [1..k -> SmallItems] :
          m = ItemMod(<<>>, Some(c))
    \/ m = ItemMod(<<DeriveAttr>>, NoContent)

(***************************************************************************)
(* The module folder as a state machine: fold_item_mod folds the items of  *)
(* the module in order, one fold_item per step.                            *)
(***************************************************************************)
MethodIdle ==
    /\ method = ConstItem
    /\ mpc = "idle"
    /\ original_tag = ""
    /\ cleaned = ConstItem
    /\ cleaned_tag = ""

SigIdle ==
    /\ sig_in = <<>>
    /\ spc = "idle"
    /\ jni_signature = None
    /\ call_expr = None
    /\ sig_diags = <<>>

ModIdle ==
    /\ module_decl = ItemMod(<<>>, NoContent)
    /\ package_map = <<>>
    /\ pc = "idle"
    /\ pos = 0
    /\ out_attrs = <<>>
    /\ out_items = <<>>
    /\ impl_export_visitor = <<>>
    /\ diags = <<>>

Init ==
    /\ IsModuleDecl(module_decl)
    /\ package_map \in PackageMaps
    /\ pc = "start"
    /\ pos = 0
    /\ out_attrs = <<>>
    /\ out_items = <<>>
    /\ impl_export_visitor = <<>>
    /\ diags = <<>>
    /\ MethodIdle
    /\ SigIdle

\* fold_item_mod up to the traversal of the items
ModTransformer_fold_item_mod ==
    /\ pc = "start"
    /\ out_attrs' = module_decl.attrs \o <<AllowNonSnakeCase, AllowUnused>>
    /\ pc' = IF module_decl.content.some /\ module_decl.content.val # <<>>
             THEN "items" ELSE "done"
    /\ UNCHANGED <<module_decl, package_map, pos, out_items, impl_export_visitor,
                   diags, method_vars, sig_vars>>

\* one iteration of line 198: fold_item on the next item
ModTransformer_fold_item ==
    /\ pc = "items"
    /\ pos < Len(module_decl.content.val)
    /\ LET r == fold_item(module_decl.content.val[pos + 1], package_map)
       IN  /\ out_items' = Append(out_items, r.item)
           /\ diags' = diags \o r.diags
           /\ impl_export_visitor' =
                  IF r.visited.some THEN r.visited.val ELSE impl_export_visitor
    /\ pos' = pos + 1
    /\ pc' = IF pos + 1 = Len(module_decl.content.val) THEN "done" ELSE "items"
    /\ UNCHANGED <<module_decl, package_map, out_attrs, method_vars, sig_vars>>

Next == ModTransformer_fold_item_mod \/ ModTransformer_fold_item

Spec == Init /\ [][Next]_vars

(***************************************************************************)
(* The classifier and the cleaner applied to one impl item.                *)
(***************************************************************************)
MethodAttrs == {CallTypeAttr, InlineAttr, RustfmtSkipAttr}

MethodInputs ==
    {Method(v, a, at) :
        v \in {"pub", "inherited", "restricted"},
        a \in {NoAbi, Abi(None), Abi(Some("jni")), Abi(Some("java")), Abi(Some("C"))},
        at \in SeqsUpTo(MethodAttrs, MaxAttrs)}
    \cup {ConstItem}

InitMethod ==
    /\ method \in MethodInputs
    /\ mpc = "visit"
    /\ original_tag = ""
    /\ cleaned = ConstItem
    /\ cleaned_tag = ""
    /\ ModIdle
    /\ SigIdle

\* the classifier on the original item
Visit ==
    /\ mpc = "visit"
    /\ original_tag' = visit_impl_item(<<>>, method)[1][2]
    /\ mpc' = "clean"
    /\ UNCHANGED <<method, cleaned, cleaned_tag, mod_vars, sig_vars>>

\* the cleaner on the original item
Clean ==
    /\ mpc = "clean"
    /\ cleaned' = ImplCleaner_fold_impl_item(method)
    /\ mpc' = "revisit"
    /\ UNCHANGED <<method, original_tag, cleaned_tag, mod_vars, sig_vars>>

\* the classifier on the cleaned item
Revisit ==
    /\ mpc = "revisit"
    /\ cleaned_tag' = visit_impl_item(<<>>, cleaned)[1][2]
    /\ mpc' = "done"
    /\ UNCHANGED <<method, original_tag, cleaned, mod_vars, sig_vars>>

NextMethod == Visit \/ Clean \/ Revisit

SpecMethod == InitMethod /\ [][NextMethod]_vars

(***************************************************************************)
(* Signature pipeline: FreestandingTransformer, JNISignatureTransformer,   *)
(* JNISignature.                                                           *)
(***************************************************************************)
Ident(name) == [name |-> name, scope |-> <<>>]

\* utils::unique_ident on the prefix "receiver_{struct_name}_{fn_name}"
unique_ident(struct_name, fn_name) ==
    [name |-> "receiver", scope |-> <<struct_name, fn_name>>]

PatIdent(ident, by_ref, mutability) ==
    [kind |-> "Ident", ident |-> ident, by_ref |-> by_ref, mutability |-> mutability]
PatWild ==
    [kind |-> "Wild", ident |-> Ident("_"), by_ref |-> FALSE, mutability |-> FALSE]

Receiver(reference, lifetime, mutability) ==
    [kind |-> "Receiver", reference |-> reference, lifetime |-> lifetime,
     mutability |-> mutability]
Typed(pat, ty) == [kind |-> "Typed", pat |-> pat, ty |-> ty]

TupleType(elems) == [kind |-> "Tuple", elems |-> elems]
TraitObjectType == [kind |-> "TraitObject", bounds |-> <<"Display">>]

\* <self_ty as ::robusta_jni::convert::trait<lifetimes>>::assoc
AssocType(self_ty, trait, lifetimes, assoc) ==
    [kind |-> "Assoc", self_ty |-> self_ty, trait |-> trait,
     lifetimes |-> lifetimes, assoc |-> assoc]

ReturnDefault == [kind |-> "Default", ty |-> TupleType(<<>>)]
ReturnType(ty) == [kind |-> "Type", ty |-> ty]

Safe(params) == [kind |-> "Safe", params |-> params]
Unchecked == [kind |-> "Unchecked", params |-> None]

\* one lifetime argument other than `'env` is enough for the warning
needs_env_lifetime_any_other(struct_type) ==
    /\ struct_type.args # <<>>
    /\ \E i \in DOMAIN struct_type.args :
          struct_type.args[i].kind = "Lifetime" /\ struct_type.args[i].ident # "env"

\* FreestandingTransformer::fold_fn_arg, lines 357-369
needs_env_lifetime(struct_type) ==
    /\ struct_type.args # <<>>
    /\ \A i \in DOMAIN struct_type.args :
          struct_type.args[i].kind = "Lifetime" => struct_type.args[i].ident # "env"

\* FreestandingTransformer::fold_fn_arg: the folded argument and the
\* diagnostics emitted
FreestandingTransformer_fold_fn_arg(t, arg) ==
    IF arg.kind = "Receiver"
    THEN LET self_type ==
                 IF arg.reference
                 THEN ReferenceType(arg.lifetime, arg.mutability,
                                    [kind |-> "Path", path |-> t.struct_type])
                 ELSE [kind |-> "Path", path |-> t.struct_type]
         IN  [arg |-> Typed(PatIdent(unique_ident(t.struct_name, t.fn_name),
                                     FALSE, FALSE),
                            self_type),
              diags |-> IF needs_env_lifetime(t.struct_type)
                        THEN <<Warning(t.struct_type.name,
                                       "must have one 'env lifetime in impl")>>
                        ELSE <<>>]
    ELSE IF arg.pat.kind = "Ident" /\ arg.pat.ident = Ident("self")
    THEN [arg |-> Typed(PatIdent(unique_ident(t.struct_name, t.fn_name),
                                 arg.pat.by_ref, arg.pat.mutability),
                        arg.ty),
          diags |-> <<>>]
    ELSE [arg |-> arg, diags |-> <<>>]

is_lifetime_named(p, name) == p.kind = "Lifetime" /\ p.ident = name

\* the last parameter of the name that the fold of lines 458-476 meets (0: none)
last_lifetime(params, name) ==
    LET S == {i \in DOMAIN params : is_lifetime_named(params[i], name)}
    IN  IF S = {} THEN 0 ELSE CHOOSE i \in S : \A j \in S : j <= i

\* lines 461-465: a warning for each `'env` with a bound other than `'borrow`
RECURSIVE env_bound_warnings(_)
env_bound_warnings(params) ==
    IF params = <<>> THEN <<>>
    ELSE (IF /\ is_lifetime_named(Head(params), "env")
             /\ \E b \in DOMAIN Head(params).bounds : Head(params).bounds[b] # "borrow"
          THEN <<Warning("env", "using JNI-reserved 'env lifetime with non 'borrow bounds")>>
          ELSE <<>>)
         \o env_bound_warnings(Tail(params))

\* the enclosing type's lifetimes are not merged in
transform_generics_without_merge(t, generics) ==
    LET params == generics
        e == last_lifetime(params, "env")
        b == last_lifetime(params, "borrow")
        borrow_def == LifetimeParam("borrow", <<>>)
        warnings == env_bound_warnings(params)
    IN  CASE e > 0 /\ b > 0 -> [generics |-> params, diags |-> warnings]
          [] e > 0 /\ b = 0 ->
                [generics |-> Append([params EXCEPT ![e].bounds = Append(@, "borrow")],
                                     borrow_def),
                 diags |-> warnings]
          [] e = 0 /\ b > 0 ->
                [generics |-> params,
                 diags |-> warnings \o
                     <<Error("borrow", "Can't use JNI-reserved 'borrow lifetime without accompanying 'env: 'borrow lifetime")>>]
          [] OTHER ->
                [generics |-> params \o <<LifetimeParam("env", <<"borrow">>), borrow_def>>,
                 diags |-> warnings]

\* the synthesized `'env` is declared without its `'borrow` bound
transform_generics_unbounded_env(t, generics) ==
    LET params == generics \o t.struct_lifetimes
        e == last_lifetime(params, "env")
        b == last_lifetime(params, "borrow")
        borrow_def == LifetimeParam("borrow", <<>>)
        warnings == env_bound_warnings(params)
    IN  CASE e > 0 /\ b > 0 -> [generics |-> params, diags |-> warnings]
          [] e > 0 /\ b = 0 ->
                [generics |-> Append([params EXCEPT ![e].bounds = Append(@, "borrow")],
                                     borrow_def),
                 diags |-> warnings]
          [] e = 0 /\ b > 0 ->
                [generics |-> params,
                 diags |-> warnings \o
                     <<Error("borrow", "Can't use JNI-reserved 'borrow lifetime without accompanying 'env: 'borrow lifetime")>>]
          [] OTHER ->
                [generics |-> params \o <<LifetimeParam("env", <<>>), borrow_def>>,
                 diags |-> warnings]

\* JNISignatureTransformer::transform_generics: the generic parameters and the
\* diagnostics emitted
transform_generics(t, generics) ==
    LET params == generics \o t.struct_lifetimes
        e == last_lifetime(params, "env")
        b == last_lifetime(params, "borrow")
        borrow_def == LifetimeParam("borrow", <<>>)
        warnings == env_bound_warnings(params)
    IN  CASE e > 0 /\ b > 0 -> [generics |-> params, diags |-> warnings]
          [] e > 0 /\ b = 0 ->
                [generics |-> Append([params EXCEPT ![e].bounds = Append(@, "borrow")],
                                     borrow_def),
                 diags |-> warnings]
          [] e = 0 /\ b > 0 ->
                [generics |-> params,
                 diags |-> warnings \o
                     <<Error("borrow", "Can't use JNI-reserved 'borrow lifetime without accompanying 'env: 'borrow lifetime")>>]
          [] OTHER ->
                [generics |-> params \o <<LifetimeParam("env", <<"borrow">>), borrow_def>>,
                 diags |-> warnings]

\* lines 543-546
jni_conversion_type(call_type, original_input_type) ==
    IF call_type.kind = "Safe"
    THEN AssocType(original_input_type, "TryFromJavaValue", <<"env", "borrow">>, "Source")
    ELSE AssocType(original_input_type, "FromJavaValue", <<"env", "borrow">>, "Source")

\* JNISignatureTransformer::fold_fn_arg
JNISignatureTransformer_fold_fn_arg(t, arg) ==
    LET r == FreestandingTransformer_fold_fn_arg(t, arg)
    IN  [arg |-> Typed(r.arg.pat, jni_conversion_type(t.call_type, r.arg.ty)),
         diags |-> r.diags]

\* without the arm for the empty tuple
fold_return_type_without_unit_arm(t, return_type) ==
    IF return_type.kind = "Default"
    THEN [output |-> return_type, diags |-> <<>>]
    ELSE LET rtype == return_type.ty
         IN  CASE rtype.kind \in {"Path", "Reference"} /\ t.call_type.kind = "Unchecked" ->
                    [output |-> ReturnType(AssocType(rtype, "IntoJavaValue", <<"env">>, "Target")),
                     diags |-> <<>>]
               [] rtype.kind \in {"Path", "Reference"} /\ t.call_type.kind = "Safe" ->
                    [output |-> ReturnType(AssocType(rtype, "TryIntoJavaValue", <<"env">>, "Target")),
                     diags |-> <<>>]
               [] OTHER ->
                    [output |-> return_type,
                     diags |-> <<Error("return_type", "Only type or type paths are permitted as type ascriptions in function params")>>]

\* JNISignatureTransformer::fold_return_type
fold_return_type(t, return_type) ==
    IF return_type.kind = "Default"
    THEN [output |-> return_type, diags |-> <<>>]
    ELSE LET rtype == return_type.ty
         IN  CASE rtype.kind \in {"Path", "Reference"} /\ t.call_type.kind = "Unchecked" ->
                    [output |-> ReturnType(AssocType(rtype, "IntoJavaValue", <<"env">>, "Target")),
                     diags |-> <<>>]
               [] rtype.kind \in {"Path", "Reference"} /\ t.call_type.kind = "Safe" ->
                    [output |-> ReturnType(AssocType(rtype, "TryIntoJavaValue", <<"env">>, "Target")),
                     diags |-> <<>>]
               [] rtype.kind = "Tuple" /\ rtype.elems = <<>> ->
                    [output |-> ReturnDefault, diags |-> <<>>]
               [] OTHER ->
                    [output |-> return_type,
                     diags |-> <<Error("return_type", "Only type or type paths are permitted as type ascriptions in function params")>>]

\* lines 599-603: fold_fn_arg on each input, in order
RECURSIVE fold_inputs(_, _)
fold_inputs(t, inputs) ==
    IF inputs = <<>> THEN [inputs |-> <<>>, diags |-> <<>>]
    ELSE LET h == JNISignatureTransformer_fold_fn_arg(t, Head(inputs))
             r == fold_inputs(t, Tail(inputs))
         IN  [inputs |-> <<h.arg>> \o r.inputs, diags |-> h.diags \o r.diags]

\* JNISignatureTransformer::fold_signature: the fields are evaluated in the
\* order they are written
fold_signature(t, node) ==
    LET g == transform_generics(t, node.generics)
        i == fold_inputs(t, node.inputs)
        o == fold_return_type(t, node.output)
    IN  [signature |-> [abi |-> node.abi, ident |-> node.ident,
                        generics |-> g.generics, inputs |-> i.inputs,
                        output |-> o.output],
         diags |-> g.diags \o i.diags \o o.diags]

\* utils::is_self_method: the signature has a receiver, implicit or a
\* parameter named `self`
is_self_arg(arg) ==
    \/ arg.kind = "Receiver"
    \/ arg.kind = "Typed" /\ arg.pat.kind = "Ident" /\ arg.pat.ident = Ident("self")

is_self_method(signature) ==
    \E i \in DOMAIN signature.inputs : is_self_arg(signature.inputs[i])

\* the type of an environment-handle parameter: a reference to JNIEnv
is_env_type(ty) ==
    /\ ty.kind = "Reference"
    /\ ty.elem.kind = "Path"
    /\ canonicalize_path(ty.elem.path).name = "JNIEnv"

\* utils::get_env_arg: an environment-handle parameter, first for a method
\* without receiver and second for a self-method, is taken out of the signature
get_env_arg(signature) ==
    LET idx == IF is_self_method(signature) THEN 2 ELSE 1
        inputs == signature.inputs
    IN  IF /\ idx <= Len(inputs)
           /\ inputs[idx].kind = "Typed"
           /\ is_env_type(inputs[idx].ty)
        THEN [signature |-> [signature EXCEPT
                                !.inputs = SubSeq(inputs, 1, idx - 1)
                                           \o SubSeq(inputs, idx + 1, Len(inputs))],
              env_arg |-> Some(inputs[idx])]
        ELSE [signature |-> signature, env_arg |-> None]

\* JNISignature::new: the JNISignature and the diagnostics emitted
JNISignature_new_value(signature, struct_type, struct_name, struct_lifetimes, call_type) ==
    LET jni_signature_transformer ==
            [struct_type |-> struct_type, struct_name |-> struct_name,
             struct_lifetimes |-> struct_lifetimes, fn_name |-> signature.ident,
             call_type |-> call_type]
        self_method == is_self_method(signature)
        e == get_env_arg(signature)
        f == fold_signature(jni_signature_transformer, e.signature)
    IN  [value |-> [transformed_signature |-> f.signature, call_type |-> call_type,
                    struct_name |-> struct_name, self_method |-> self_method,
                    env_arg |-> e.env_arg],
         diags |-> f.diags]

\* JNISignature::args_iter
args_iter(js) == js.transformed_signature.inputs

ConversionExpr(trait, func, ident, try) ==
    [kind |-> "Conversion", trait |-> trait, func |-> func, ident |-> ident,
     env |-> "&env", try |-> try]
EnvRefExpr ==
    [kind |-> "EnvRef", trait |-> "", func |-> "", ident |-> Ident("env"),
     env |-> "&env", try |-> FALSE]

\* the infallible conversion in both call modes
input_param_always_infallible(call_type, ident) ==
    ConversionExpr("FromJavaValue", "from", ident, FALSE)

\* lines 665-670
input_param(call_type, ident) ==
    IF call_type.kind = "Safe"
    THEN ConversionExpr("TryFromJavaValue", "try_from", ident, TRUE)
    ELSE ConversionExpr("FromJavaValue", "from", ident, FALSE)

\* Vec::insert
vec_insert(v, idx, x) == SubSeq(v, 1, idx) \o <<x>> \o SubSeq(v, idx + 1, Len(v))

BareExpr(ident) ==
    [kind |-> "Path", trait |-> "", func |-> "", ident |-> ident,
     env |-> "", try |-> FALSE]

\* the receiver binding is passed as it is
signature_call_bare_receiver(js) ==
    LET args == args_iter(js)
        result == [i \in DOMAIN args |->
                      IF i = 1 /\ js.self_method
                      THEN BareExpr(args[i].pat.ident)
                      ELSE input_param(js.call_type, args[i].pat.ident)]
        idx == IF js.self_method THEN 1 ELSE 0
    IN  IF \E i \in DOMAIN args : args[i].kind # "Typed" \/ args[i].pat.kind # "Ident"
        THEN None
        ELSE IF js.env_arg.some /\ idx > Len(result)
        THEN None
        ELSE Some([struct_name |-> js.struct_name,
                   method_name |-> js.transformed_signature.ident,
                   inputs |-> IF js.env_arg.some
                              THEN vec_insert(result, idx, EnvRefExpr)
                              ELSE result])

\* `&env` is put first, self-method or not
signature_call_env_first(js) ==
    LET args == args_iter(js)
        result == [i \in DOMAIN args |-> input_param(js.call_type, args[i].pat.ident)]
    IN  IF \E i \in DOMAIN args : args[i].kind # "Typed" \/ args[i].pat.kind # "Ident"
        THEN None
        ELSE Some([struct_name |-> js.struct_name,
                   method_name |-> js.transformed_signature.ident,
                   inputs |-> IF js.env_arg.some
                              THEN vec_insert(result, 0, EnvRefExpr)
                              ELSE result])

\* JNISignature::signature_call: None when it panics
signature_call(js) ==
    LET args == args_iter(js)
        result == [i \in DOMAIN args |-> input_param(js.call_type, args[i].pat.ident)]
        idx == IF js.self_method THEN 1 ELSE 0
    IN  IF \E i \in DOMAIN args : args[i].kind # "Typed" \/ args[i].pat.kind # "Ident"
        THEN None
        ELSE IF js.env_arg.some /\ idx > Len(result)
        THEN None
        ELSE Some([struct_name |-> js.struct_name,
                   method_name |-> js.transformed_signature.ident,
                   inputs |-> IF js.env_arg.some
                              THEN vec_insert(result, idx, EnvRefExpr)
                              ELSE result])

(***************************************************************************)
(* Inputs of the signature pipeline.                                       *)
(***************************************************************************)
ArgNames == <<"a1", "a2", "a3", "a4", "a5">>

GenericParamKinds ==
    { LifetimeParam("a", <<>>), LifetimeParam("env", <<>>),
      LifetimeParam("env", <<"borrow">>), LifetimeParam("env", <<"a">>),
      LifetimeParam("borrow", <<>>), TypeParam("T") }

I32 == PathType("i32", <<>>)
StrRef == ReferenceType(None, FALSE, PathType("str", <<>>))
JNIEnvRef == ReferenceType(None, FALSE, PathType("JNIEnv", <<LifetimeArg("env")>>))

\* no receiver, self, &self, &mut self, &'a self, self: Box<Self>
Receivers ==
    { <<>>,
      <<Receiver(FALSE, None, FALSE)>>,
      <<Receiver(TRUE, None, FALSE)>>,
      <<Receiver(TRUE, None, TRUE)>>,
      <<Receiver(TRUE, Some("a"), FALSE)>>,
      <<Typed(PatIdent(Ident("self"), FALSE, FALSE), PathType("Box", <<TypeArg("Self")>>))>> }

\* x: i32, x: &str, _: i32, x: &JNIEnv<'env>
ArgKinds ==
    { Typed(PatIdent(Ident(""), FALSE, FALSE), I32),
      Typed(PatIdent(Ident(""), FALSE, FALSE), StrRef),
      Typed(PatWild, I32),
      Typed(PatIdent(Ident(""), FALSE, FALSE), JNIEnvRef) }

NamedArgs(args) ==
    [i \in DOMAIN args |->
        IF args[i].pat.kind = "Ident"
        THEN [args[i] EXCEPT !.pat.ident = Ident(ArgNames[i])]
        ELSE args[i]]

Outputs ==
    { ReturnDefault, ReturnType(TupleType(<<>>)), ReturnType(I32), ReturnType(StrRef),
      ReturnType(TupleType(<<I32, I32>>)), ReturnType(TraitObjectType) }

CallTypes == {Safe(None), Safe(Some("java.lang.RuntimeException")), Unchecked}

Signature(generics, inputs, output) ==
    [abi |-> Abi(Some("jni")), ident |-> "bar", generics |-> generics,
     inputs |-> inputs, output |-> output]

\* the enclosing types: the impl headers that name a type path, and
\* impl<'a, 'env> Baz<'a, 'env>
StructTypes ==
    { [struct_type |-> h.self_ty.path,
       struct_name |-> struct_name_of(h.self_ty.path),
       struct_lifetimes |-> struct_lifetimes_of(h)] :
        h \in {x \in ImplHeaders : x.self_ty.kind = "Path"} \cup
              { [generics |-> <<LifetimeParam("a", <<>>), LifetimeParam("env", <<>>)>>,
                 self_ty |-> PathType("Baz", <<LifetimeArg("a"), LifetimeArg("env")>>)] } }

SigInput(signature, st, call_type) ==
    [signature |-> signature, struct_type |-> st.struct_type,
     struct_name |-> st.struct_name, struct_lifetimes |-> st.struct_lifetimes,
     call_type |-> call_type]

\* every generics list with a few signatures, and every signature with a few
\* generics lists
IsSigInput(x) ==
    \/ \E k \in 0..MaxGenerics : \E g \in [1..k -> GenericParamKinds] :
       \E i \in { <<>>, <<Receiver(TRUE, None, FALSE)>>,
                  <<Receiver(TRUE, None, FALSE),
                    Typed(PatIdent(Ident("env"), FALSE, FALSE), JNIEnvRef),
                    Typed(PatIdent(Ident("x"), FALSE, FALSE), I32)>> } :
       \E o \in {ReturnDefault, ReturnType(I32)} :
       \E st \in StructTypes : \E c \in {Safe(None), Unchecked} :
          x = SigInput(Signature(g, i, o), st, c)
    \/ \E g \in { <<>>, <<LifetimeParam("env", <<"borrow">>),
                          LifetimeParam("borrow", <<>>)>> } :
       \E r \in Receivers :
       \E k \in 0..MaxArgs : \E a \in [1..k -> ArgKinds] :
       \E o \in Outputs : \E st \in StructTypes : \E c \in CallTypes :
          x = SigInput(Signature(g, r \o NamedArgs(a), o), st, c)

(***************************************************************************)
(* The signature pipeline as a state machine: JNISignature::new, then      *)
(* signature_call on its result.                                           *)
(***************************************************************************)
InitSig ==
    /\ IsSigInput(sig_in)
    /\ spc = "new"
    /\ jni_signature = None
    /\ call_expr = None
    /\ sig_diags = <<>>
    /\ ModIdle
    /\ MethodIdle

JNISignature_new ==
    /\ spc = "new"
    /\ LET r == JNISignature_new_value(sig_in.signature, sig_in.struct_type,
                                       sig_in.struct_name, sig_in.struct_lifetimes,
                                       sig_in.call_type)
       IN  /\ jni_signature' = Some(r.value)
           /\ sig_diags' = r.diags
    /\ spc' = "built"
    /\ UNCHANGED <<sig_in, call_expr, mod_vars, method_vars>>

JNISignature_signature_call ==
    /\ spc = "built"
    /\ call_expr' = signature_call(jni_signature.val)
    /\ spc' = IF signature_call(jni_signature.val).some THEN "called" ELSE "panicked"
    /\ UNCHANGED <<sig_in, jni_signature, sig_diags, mod_vars, method_vars>>

NextSig == JNISignature_new \/ JNISignature_signature_call

SpecSig == InitSig /\ [][NextSig]_vars

(***************************************************************************)
(* Properties of the classifier, the cleaner and the module folder.        *)
(***************************************************************************)

\* C1: for the impl block folded last, the classifier holds exactly one
\* (item, tag) pair per impl item, in declaration order; a method marked
\* "jni" is tagged Exported, one marked "java" Imported, and every other
\* item (another marker, no marker, not a method) Unexported.
C1_ClassifierTagsEveryItem ==
    (pc \in {"items", "done"} /\ pos > 0
        /\ module_decl.content.val[pos].kind = "Impl") =>
    LET node == module_decl.content.val[pos]
    IN  /\ Len(impl_export_visitor) = Len(node.items)
        /\ \A i \in 1..Len(node.items) :
              LET item == node.items[i]
                  marked(m) == /\ item.kind = "Method"
                               /\ item.sig.abi.some
                               /\ item.sig.abi.name.some
                               /\ item.sig.abi.name.val = m
              IN  /\ impl_export_visitor[i][1] = item
                  /\ impl_export_visitor[i][2] =
                        (IF marked("jni") THEN "Exported"
                         ELSE IF marked("java") THEN "Imported"
                         ELSE "Unexported")

\* C1 witness: a folded impl block whose three items got the three tags
C1_Witness ==
    /\ pos > 0
    /\ module_decl.content.val[pos].kind = "Impl"
    /\ Len(impl_export_visitor) = 3
    /\ {impl_export_visitor[i][2] : i \in 1..3} = {"Exported", "Imported", "Unexported"}
    /\ \E i \in 1..3 : impl_export_visitor[i][1].kind = "Const"

\* C8 (as stated): the classifier gives the cleaned form of every item the
\* tag it gives the original.
C8_CleanedKeepsTag == mpc = "done" => cleaned_tag = original_tag

\* C8 (amended): the classifier gives the cleaned form of an item the tag it
\* gives the original, except for a public method marked "jni": the cleaner
\* removes its marker, so the original is Exported and the cleaned form
\* Unexported.
C8_CleanedKeepsTagUnlessPublicJni ==
    mpc = "done" =>
        IF /\ method.kind = "Method"
           /\ method.vis = "pub"
           /\ method.sig.abi = Abi(Some("jni"))
        THEN original_tag = "Exported" /\ cleaned_tag = "Unexported"
        ELSE cleaned_tag = original_tag

\* C8 witness: a public "jni" method with attributes, classified, cleaned and
\* classified again
C8_Witness ==
    /\ mpc = "done"
    /\ method.kind = "Method"
    /\ method.vis = "pub"
    /\ method.sig.abi = Abi(Some("jni"))
    /\ method.attrs # <<>>
    /\ cleaned # method

\* C9: when the package lookup for an impl block's target type has no entry
\* or a None entry, an error is reported, the block is emitted as it was
\* with no shim, and every later item is still folded, to what folding it
\* alone gives; a later impl block that resolves gets one shim per method
\* marked "jni".
C9_UnresolvedImplPassesThrough ==
    pc \in {"items", "done"} =>
    \A j \in 1..pos :
        LET content == module_decl.content.val
            node == content[j]
            is_path_impl(n) == n.kind = "Impl" /\ n.self_ty.kind = "Path"
            has_package(n) == /\ n.self_ty.path.name \in DOMAIN package_map
                              /\ package_map[n.self_ty.path.name].some
            jni_methods(n) == {i \in 1..Len(n.items) :
                                  /\ n.items[i].kind = "Method"
                                  /\ n.items[i].sig.abi = Abi(Some("jni"))}
            shims(toks) == {i \in 1..Len(toks) : toks[i].kind = "Shim"}
        IN  (is_path_impl(node) /\ ~has_package(node)) =>
              /\ Len(out_items) = pos
              /\ out_items[j] = [kind |-> "Verbatim", tokens |-> <<node>>]
              /\ \E d \in 1..Len(diags) :
                    diags[d].level = "error" /\ diags[d].at = node.self_ty.path.name
              /\ (pc = "done" => pos = Len(content))
              /\ \A k \in (j + 1)..pos :
                    /\ out_items[k] = fold_item(content[k], package_map).item
                    /\ (is_path_impl(content[k]) /\ has_package(content[k])) =>
                          Cardinality(shims(out_items[k].tokens))
                              = Cardinality(jni_methods(content[k]))

\* C9 witness: the module is folded, its first item an impl block with a
\* "jni" method whose type does not resolve, its second an impl block that
\* resolves and got its shim
C9_Witness ==
    /\ pc = "done"
    /\ pos = 2
    /\ module_decl.content.val[1].kind = "Impl"
    /\ module_decl.content.val[1].self_ty.kind = "Path"
    /\ module_decl.content.val[1].items # <<>>
    /\ lookup_package(package_map, module_decl.content.val[1].self_ty.path.name) = None
    /\ out_items[1].tokens = <<module_decl.content.val[1]>>
    /\ diags # <<>>
    /\ module_decl.content.val[2].kind = "Impl"
    /\ \E i \in 1..Len(out_items[2].tokens) : out_items[2].tokens[i].kind = "Shim"

\* C10 (as stated): for an impl block that resolves, the replacement tokens
\* are the preserved impl block first, with one item per input item in
\* declaration order, then one shim per method marked "jni", in the
\* declaration order of those methods.
C10_PreservedImplThenShims ==
    (pc \in {"items", "done"} /\ pos > 0
        /\ module_decl.content.val[pos].kind = "Impl"
        /\ module_decl.content.val[pos].self_ty.kind = "Path"
        /\ lookup_package(package_map,
                          module_decl.content.val[pos].self_ty.path.name).some) =>
    LET node == module_decl.content.val[pos]
        toks == out_items[pos].tokens
        is_exported(item) == item.kind = "Method" /\ item.sig.abi = Abi(Some("jni"))
        exported == SelectSeq(node.items, is_exported)
    IN  /\ Len(toks) = 1 + Len(exported)
        /\ toks[1].kind = "Impl"
        /\ Len(toks[1].items) = Len(node.items)
        /\ \A i \in 1..Len(node.items) : toks[1].items[i].ident = node.items[i].ident
        /\ \A k \in 1..Len(exported) :
              /\ toks[1 + k].kind = "Shim"
              /\ toks[1 + k].fn_name = exported[k].ident

(***************************************************************************)
(* Properties of the signature pipeline.                                   *)
(***************************************************************************)

\* C2 (as stated): when lifetime synthesis reports no error, the resulting
\* generics declare an `env` and a `borrow` lifetime and an `env` lifetime
\* carries a `borrow` bound.
C2_EnvOutlivesBorrow ==
    (/\ spc \in {"built", "called", "panicked"}
     /\ \A d \in DOMAIN sig_diags :
           ~(sig_diags[d].level = "error" /\ sig_diags[d].at = "borrow")) =>
    LET g == jni_signature.val.transformed_signature.generics
    IN  /\ \E i \in DOMAIN g : g[i].kind = "Lifetime" /\ g[i].ident = "borrow"
        /\ \E i \in DOMAIN g :
              /\ g[i].kind = "Lifetime"
              /\ g[i].ident = "env"
              /\ \E b \in DOMAIN g[i].bounds : g[i].bounds[b] = "borrow"

\* C3: when the generics, the enclosing type's lifetimes merged in, have
\* neither an `env` nor a `borrow` lifetime, lifetime synthesis appends
\* exactly `env` with the single bound `borrow` and then `borrow` without
\* bounds, and keeps the parameters that were there, in their order.
C3_NeitherDeclaredAddsBoth ==
    spc \in {"built", "called", "panicked"} =>
    LET merged == sig_in.signature.generics \o sig_in.struct_lifetimes
        g == jni_signature.val.transformed_signature.generics
        n == Len(merged)
    IN  (\A i \in DOMAIN merged :
            ~(merged[i].kind = "Lifetime" /\ merged[i].ident \in {"env", "borrow"})) =>
        /\ Len(g) = n + 2
        /\ \A i \in 1..n : g[i] = merged[i]
        /\ g[n + 1] = [kind |-> "Lifetime", ident |-> "env", bounds |-> <<"borrow">>]
        /\ g[n + 2] = [kind |-> "Lifetime", ident |-> "borrow", bounds |-> <<>>]

\* C3 witness: a signature declaring <'a, T> and neither `env` nor `borrow`
\* went through lifetime synthesis
C3_Witness ==
    /\ spc = "built"
    /\ sig_in.signature.generics = <<LifetimeParam("a", <<>>), TypeParam("T")>>
    /\ sig_in.struct_lifetimes = <<LifetimeParam("a", <<>>)>>
    /\ Len(jni_signature.val.transformed_signature.generics) = 5

\* C4 (as stated): when the generics declare a `borrow` lifetime and no `env`
\* lifetime, an error is reported and no transformed signature is produced.
C4_BorrowOnlyIsRejected ==
    LET merged == sig_in.signature.generics \o sig_in.struct_lifetimes
        declares(name) == \E i \in DOMAIN merged :
                             merged[i].kind = "Lifetime" /\ merged[i].ident = name
    IN  (/\ spc \in {"built", "called", "panicked"}
         /\ declares("borrow")
         /\ ~declares("env")) =>
        /\ \E d \in DOMAIN sig_diags : sig_diags[d].level = "error"
        /\ ~jni_signature.some

\* C5: a return type that is the empty tuple becomes no return type, in
\* every call mode, and no return type stays no return type.
C5_UnitReturnIsDropped ==
    (/\ spc \in {"built", "called", "panicked"}
     /\ \/ sig_in.signature.output.kind = "Default"
        \/ /\ sig_in.signature.output.kind = "Type"
           /\ sig_in.signature.output.ty.kind = "Tuple"
           /\ sig_in.signature.output.ty.elems = <<>>) =>
    jni_signature.val.transformed_signature.output.kind = "Default"

\* C5 witness: a signature returning `()` was transformed in Safe mode
C5_Witness ==
    /\ spc = "built"
    /\ sig_in.signature.output = ReturnType(TupleType(<<>>))
    /\ sig_in.call_type.kind = "Safe"
    /\ sig_in.signature.inputs # <<>>

\* C6: one call mode, one trait family: under Unchecked every parameter
\* type, the path or reference return type and every argument conversion of
\* the call use the infallible traits and propagate no error; under Safe
\* they use the fallible traits and every argument conversion propagates its
\* error.
C6_OneTraitFamilyPerCallMode ==
    spc \in {"built", "called", "panicked"} =>
    LET js == jni_signature.val
        safe == sig_in.call_type.kind = "Safe"
        inputs == js.transformed_signature.inputs
        output == js.transformed_signature.output
    IN  /\ sig_in.call_type.kind \in {"Safe", "Unchecked"}
        /\ js.call_type = sig_in.call_type
        /\ \A i \in DOMAIN inputs :
              /\ inputs[i].ty.kind = "Assoc"
              /\ inputs[i].ty.trait =
                    (IF safe THEN "TryFromJavaValue" ELSE "FromJavaValue")
        /\ (/\ sig_in.signature.output.kind = "Type"
            /\ sig_in.signature.output.ty.kind \in {"Path", "Reference"}) =>
              /\ output.kind = "Type"
              /\ output.ty.kind = "Assoc"
              /\ output.ty.trait =
                    (IF safe THEN "TryIntoJavaValue" ELSE "IntoJavaValue")
        /\ spc = "called" =>
              \A i \in DOMAIN call_expr.val.inputs :
                  LET a == call_expr.val.inputs[i]
                  IN  a.kind # "EnvRef" =>
                        /\ a.kind = "Conversion"
                        /\ a.trait = (IF safe THEN "TryFromJavaValue" ELSE "FromJavaValue")
                        /\ a.func = (IF safe THEN "try_from" ELSE "from")
                        /\ a.try = safe

\* C6 witness: the call of a Safe method with two parameters and a path
\* return type was synthesized
C6_Witness ==
    /\ spc = "called"
    /\ sig_in.call_type.kind = "Safe"
    /\ sig_in.signature.output = ReturnType(I32)
    /\ Len(jni_signature.val.transformed_signature.inputs) = 2
    /\ Len(call_expr.val.inputs) = 2

\* C7 (as stated): for a self-method under Unchecked, the call passes the
\* desugared receiver binding as argument 0 without a conversion, and wraps
\* every other parameter in the infallible conversion.
C7_ReceiverPassedUnconverted ==
    (/\ spc = "called"
     /\ jni_signature.val.self_method
     /\ sig_in.call_type.kind = "Unchecked") =>
    LET args == call_expr.val.inputs
    IN  /\ args[1].kind # "Conversion"
        /\ args[1].ident = unique_ident(sig_in.struct_name, sig_in.signature.ident)
        /\ \A i \in 2..Len(args) :
              args[i].kind # "EnvRef" =>
                  args[i].kind = "Conversion" /\ args[i].trait = "FromJavaValue"

\* C7 (amended): for a self-method under Unchecked, the call wraps every
\* transformed parameter, the desugared receiver binding at argument 0
\* included, in the infallible conversion applied to the binding and `&env`.
C7_ReceiverConvertedLikeEveryParameter ==
    (/\ spc = "called"
     /\ jni_signature.val.self_method
     /\ sig_in.call_type.kind = "Unchecked") =>
    LET js == jni_signature.val
        params == js.transformed_signature.inputs
        all == call_expr.val.inputs
        args == IF js.env_arg.some
                THEN <<all[1]>> \o SubSeq(all, 3, Len(all))
                ELSE all
    IN  /\ Len(args) = Len(params)
        /\ params[1].pat.ident = unique_ident(sig_in.struct_name, sig_in.signature.ident)
        /\ \A i \in DOMAIN args :
              args[i] = [kind |-> "Conversion", trait |-> "FromJavaValue",
                         func |-> "from", ident |-> params[i].pat.ident,
                         env |-> "&env", try |-> FALSE]

\* C7 witness: the call of `&self, a1: i32 -> i32` on Foo<'env> under Unchecked
C7_Witness ==
    /\ spc = "called"
    /\ sig_in.call_type.kind = "Unchecked"
    /\ sig_in.struct_type = Path("Foo", <<LifetimeArg("env")>>)
    /\ sig_in.signature.inputs =
          <<Receiver(TRUE, None, FALSE), Typed(PatIdent(Ident("a1"), FALSE, FALSE), I32)>>
    /\ sig_in.signature.output = ReturnType(I32)
    /\ Len(call_expr.val.inputs) = 2

\* C11: when an environment-handle parameter was detected, the call has one
\* argument more than the transformed signature has parameters: `&env` at
\* index 1 for a self-method and at index 0 otherwise, the receiver still at
\* index 0 and the other arguments in parameter order; when none was
\* detected, the call has one argument per parameter, in parameter order.
C11_EnvArgumentPosition ==
    spc = "called" =>
    LET js == jni_signature.val
        params == js.transformed_signature.inputs
        args == call_expr.val.inputs
        idx == IF js.self_method THEN 2 ELSE 1
        of_param(a, p) == a.kind = "Conversion" /\ a.ident = p.pat.ident
    IN  IF js.env_arg.some
        THEN /\ Len(args) = Len(params) + 1
             /\ args[idx].kind = "EnvRef"
             /\ \A i \in 1..(idx - 1) : of_param(args[i], params[i])
             /\ \A i \in idx..Len(params) : of_param(args[i + 1], params[i])
             /\ js.self_method =>
                   args[1].ident = unique_ident(sig_in.struct_name, sig_in.signature.ident)
        ELSE /\ Len(args) = Len(params)
             /\ \A i \in DOMAIN params : of_param(args[i], params[i])

\* C11 witness: the call of `&self, a1: &JNIEnv, a2: i32`: receiver, `&env`,
\* then the conversion of a2
C11_Witness ==
    /\ spc = "called"
    /\ jni_signature.val.self_method
    /\ jni_signature.val.env_arg.some
    /\ Len(jni_signature.val.transformed_signature.inputs) = 2
    /\ Len(call_expr.val.inputs) = 3
    /\ call_expr.val.inputs[2] = EnvRefExpr
    /\ call_expr.val.inputs[3].ident = Ident("a2")

\* C12: for a self-method with an implicit receiver (self, &self, &mut self,
\* &'a self) of a type whose path has generic arguments with an `env`
\* lifetime among them, receiver desugaring emits no diagnostic, every
\* parameter of the result is a typed one, and the first parameter's type is
\* the enclosing type path for a by-value receiver, or a reference to it with
\* the receiver's lifetime and mutability.
C12_ReceiverDesugarsToSelfType ==
    (/\ spc \in {"built", "called", "panicked"}
     /\ sig_in.signature.inputs # <<>>
     /\ sig_in.signature.inputs[1].kind = "Receiver"
     /\ \E i \in DOMAIN sig_in.struct_type.args :
           sig_in.struct_type.args[i] = LifetimeArg("env")) =>
    LET r == sig_in.signature.inputs[1]
        path_type == [kind |-> "Path", path |-> sig_in.struct_type]
        params == jni_signature.val.transformed_signature.inputs
    IN  /\ \A d \in DOMAIN sig_diags :
              sig_diags[d].msg # "must have one 'env lifetime in impl"
        /\ \A d \in DOMAIN sig_diags : sig_diags[d].at # sig_in.struct_type.name
        /\ Len(params) = Len(sig_in.signature.inputs) -
                          (IF jni_signature.val.env_arg.some THEN 1 ELSE 0)
        /\ \A i \in DOMAIN params : params[i].kind = "Typed"
        /\ params[1].pat = PatIdent(unique_ident(sig_in.struct_name, sig_in.signature.ident),
                                    FALSE, FALSE)
        /\ params[1].ty.self_ty =
              IF r.reference
              THEN ReferenceType(r.lifetime, r.mutability, path_type)
              ELSE path_type

\* C12 witness: &'a self in impl<'a, 'env> Baz<'a, 'env> became
\* receiver: &'a Baz<'a, 'env>, and &mut self is among the receivers too
C12_Witness ==
    /\ spc = "built"
    /\ sig_in.struct_type = Path("Baz", <<LifetimeArg("a"), LifetimeArg("env")>>)
    /\ sig_in.signature.inputs # <<>>
    /\ sig_in.signature.inputs[1] = Receiver(TRUE, Some("a"), FALSE)
    /\ sig_diags = <<>>
    /\ jni_signature.val.transformed_signature.inputs[1].ty.self_ty =
          ReferenceType(Some("a"), FALSE,
                        PathType("Baz", <<LifetimeArg("a"), LifetimeArg("env")>>))

\* C13 (as stated): a declared return type that is neither the empty tuple,
\* a type path nor a reference is reported as an error and no transformed
\* signature carrying that return type is produced, in either call mode.
C13_OtherReturnShapeIsRejected ==
    (/\ spc \in {"built", "called", "panicked"}
     /\ sig_in.signature.output.kind = "Type"
     /\ sig_in.signature.output.ty.kind \notin {"Path", "Reference"}
     /\ ~(sig_in.signature.output.ty.kind = "Tuple"
          /\ sig_in.signature.output.ty.elems = <<>>)) =>
    /\ \E d \in DOMAIN sig_diags :
          sig_diags[d].level = "error" /\ sig_diags[d].at = "return_type"
    /\ ~(/\ jni_signature.some
         /\ jni_signature.val.transformed_signature.output = sig_in.signature.output)

\* C14 (as stated): for a method without receiver, the resulting generics
\* hold no lifetime parameter of the enclosing type: they are the method's
\* own parameters followed only by synthesized `env` / `borrow` parameters.
C14_NoReceiverNoStructLifetimes ==
    (/\ spc \in {"built", "called", "panicked"}
     /\ ~jni_signature.val.self_method) =>
    LET own == sig_in.signature.generics
        g == jni_signature.val.transformed_signature.generics
    IN  /\ Len(g) >= Len(own)
        /\ Len(g) <= Len(own) + 2
        /\ \A i \in 1..Len(own) : g[i].kind = own[i].kind /\ g[i].ident = own[i].ident
        /\ \A i \in (Len(own) + 1)..Len(g) :
              g[i] \in {LifetimeParam("env", <<"borrow">>), LifetimeParam("borrow", <<>>)}

\* C14 (amended): lifetime synthesis merges the lifetime parameters of the
\* enclosing type that it is given into the generics of every method, with
\* or without receiver: the resulting generics are the method's own
\* parameters, then those lifetime parameters, then only synthesized `env` /
\* `borrow` parameters.
C14_StructLifetimesMergedForEveryMethod ==
    spc \in {"built", "called", "panicked"} =>
    LET merged == sig_in.signature.generics \o sig_in.struct_lifetimes
        g == jni_signature.val.transformed_signature.generics
    IN  /\ Len(g) >= Len(merged)
        /\ Len(g) <= Len(merged) + 2
        /\ \A i \in 1..Len(merged) :
              g[i].kind = merged[i].kind /\ g[i].ident = merged[i].ident
        /\ \A i \in (Len(merged) + 1)..Len(g) :
              g[i] \in {LifetimeParam("env", <<"borrow">>), LifetimeParam("borrow", <<>>)}

\* C14 witness: a method without receiver in impl<'a, 'env, T> Bar<'a, T>
\* whose own generics are <T>: the result is <T, 'a, 'env: 'borrow, 'borrow>
C14_Witness ==
    /\ spc = "built"
    /\ ~jni_signature.val.self_method
    /\ sig_in.signature.generics = <<TypeParam("T")>>
    /\ sig_in.struct_lifetimes = <<LifetimeParam("a", <<>>)>>
    /\ Len(jni_signature.val.transformed_signature.generics) = 4
    /\ jni_signature.val.transformed_signature.generics[2] = LifetimeParam("a", <<>>)

\* C15 (as stated): the cleaner removes from every method classified
\* Exported, whatever its visibility, exactly the marker and the `call_type`
\* attributes, keeping every other attribute in order; it leaves every other
\* item unchanged.
C15_CleanerRemovesOnlyMarkerAndCallType ==
    mpc \in {"revisit", "done"} =>
    LET is_call_type(a) == a.path = <<"call_type">>
        other(a) == ~is_call_type(a)
    IN  IF original_tag = "Exported"
        THEN /\ cleaned.sig.abi = NoAbi
             /\ cleaned.attrs = SelectSeq(method.attrs, other)
             /\ cleaned.vis = method.vis
             /\ cleaned.ident = method.ident
             /\ cleaned.body = method.body
        ELSE cleaned = method

====
